---- MODULE Spec2Model ----
(***************************************************************************)
(* GNOS: capability tokens (security/capabilities.rs), the development     *)
(* capability manager that lib.rs re-exports (security/mod.rs), the inode  *)
(* manager (vfs/inode.rs), the driver registry (drivers/mod.rs) and the    *)
(* FUSE protocol engine (vfs/filesystem.rs).                               *)
(*                                                                         *)
(* Conventions.  Option<T> is a sequence: <<>> is None, <<x>> is Some(x).  *)
(* A path is the sequence of its components (std::path compares paths by   *)
(* component); Display gives its string form.  An instant is an integer    *)
(* count of clock ticks since the epoch, SUBSEC ticks to the second        *)
(* (SystemTime is finer than a second; as_secs() truncates).               *)
(* SHA-256 and HMAC-SHA256 are modelled as injective functions of their    *)
(* input: the digest of a string is the string, the tag of (key, data) is  *)
(* the pair.                                                               *)
(***************************************************************************)
EXTENDS Integers, Sequences, FiniteSets, TLC

(* ------------------------------ bounds -------------------------------- *)
SUBSEC == 2
MaxGrants == 1
MaxChecks == 2
MaxOpens == 2
NTasks == 2

(* ------------------------- program constants -------------------------- *)
CACHE_TTL_SECS == 60
CLEANUP_CACHE_SECS == 300
AUDIT_MAX == 10000
AUDIT_DRAIN == 5000
CLEANUP_INTERVAL_SECS == 300
MAX_TOKEN_LIFETIME_SECS == 24 * 3600
HMAC_SECRET == "gnos-dev-secret-change-in-prod!!"

Secs(n) == n * SUBSEC
as_secs(t) == t \div SUBSEC
Min(a, b) == IF a < b THEN a ELSE b

(* ------------------------------ Operation ----------------------------- *)
Operations == {"Read", "Write", "Execute", "List"}

to_bit(operation) ==
    CASE operation = "Read" -> 4
      [] operation = "Write" -> 2
      [] operation = "Execute" -> 1
      [] operation = "List" -> 4

(* ------------------------------- paths -------------------------------- *)
P_root == <<>>
P_proc == <<"proc">>
P_cloud == <<"cloud">>
P_net == <<"net">>
P_dev == <<"dev">>
P_llama3 == <<"proc", "llama3">>
P_cloud_aws == <<"cloud", "aws">>
P_cloud2_x == <<"cloud2", "x">>
P_net_http == <<"net", "http">>
P_a == <<"a">>
P_b == <<"b">>

\* Path::display(): the string form of a path.
Display(path) ==
    CASE path = P_root -> "/"
      [] path = P_proc -> "/proc"
      [] path = P_cloud -> "/cloud"
      [] path = P_net -> "/net"
      [] path = P_dev -> "/dev"
      [] path = P_llama3 -> "/proc/llama3"
      [] path = P_cloud_aws -> "/cloud/aws"
      [] path = P_cloud2_x -> "/cloud2/x"
      [] path = P_net_http -> "/net/http"
      [] path = P_a -> "/a"
      [] path = P_b -> "/b"

\* Path::starts_with: base is a prefix of path, component by component.
path_starts_with(path, base) ==
    /\ Len(base) <= Len(path)
    /\ SubSeq(path, 1, Len(base)) = base

(* ----------------------------- Capability ----------------------------- *)
\* Capability::new at instant now.
Capability_new(path, permissions, owner, duration, now) ==
    [path |-> path,
     permissions |-> permissions,
     expiration |-> now + duration,
     owner |-> owner,
     issued_at |-> now,
     signature |-> <<>>]

\* self.permissions & operation.to_bit() != 0; to_bit is a single bit.
allows(cap, operation) ==
    (cap.permissions \div to_bit(operation)) % 2 = 1

\* SystemTime::now() > self.expiration
is_expired(cap, now) == now > cap.expiration

\* A scope test that looks at the depth of the path only.
is_valid_for_path_depth(cap, path) == Len(cap.path) <= Len(path)

is_valid_for_path(cap, path) == path_starts_with(path, cap.path)

\* PathBuf::from(string): the path a string names.
PathBuf_from(string) ==
    CASE string = "/" -> P_root
      [] string = "/proc" -> P_proc
      [] string = "/cloud" -> P_cloud
      [] string = "/net" -> P_net
      [] string = "/dev" -> P_dev
      [] string = "/proc/llama3" -> P_llama3
      [] string = "/cloud/aws" -> P_cloud_aws
      [] string = "/cloud2/x" -> P_cloud2_x
      [] string = "/net/http" -> P_net_http
      [] string = "/a" -> P_a
      [] string = "/b" -> P_b

\* serde's form of a SystemTime: whole seconds since the epoch and the
\* part of a second beyond them.
SystemTime_serialize(t) == <<t \div SUBSEC, t % SUBSEC>>
SystemTime_deserialize(j) == j[1] * SUBSEC + j[2]

\* serde_json::to_string(capability): #[derive(Serialize)] field by field.
Capability_serialize(cap) ==
    [path |-> Display(cap.path),
     permissions |-> cap.permissions,
     expiration |-> SystemTime_serialize(cap.expiration),
     owner |-> cap.owner,
     issued_at |-> SystemTime_serialize(cap.issued_at),
     signature |-> cap.signature]

\* serde_json::from_str: #[derive(Deserialize)] field by field.
Capability_deserialize(json) ==
    [path |-> PathBuf_from(json.path),
     permissions |-> json.permissions,
     expiration |-> SystemTime_deserialize(json.expiration),
     owner |-> json.owner,
     issued_at |-> SystemTime_deserialize(json.issued_at),
     signature |-> json.signature]

\* "gnos." + base64url(json(capability)): the prefix, the encoding of the
\* payload, its format, and the JSON text of the capability.
to_token(cap) ==
    [prefix |-> "gnos.", enc |-> "base64url", fmt |-> "json",
     json |-> Capability_serialize(cap)]

\* A decoding that drops the part of a second of the two instants.
from_token_whole_secs(token) ==
    [ok |-> TRUE, err |-> "",
     cap |-> [Capability_deserialize(token.json) EXCEPT
                 !.expiration = Secs(token.json.expiration[1]),
                 !.issued_at = Secs(token.json.issued_at[1])]]

\* The checks of from_token in order; cap is None unless ok.
from_token(token) ==
    IF token.prefix # "gnos."
    THEN [ok |-> FALSE, err |-> "Invalid token format", cap |-> <<>>]
    ELSE IF token.enc # "base64url"
    THEN [ok |-> FALSE, err |-> "Invalid token encoding", cap |-> <<>>]
    ELSE IF token.fmt = "not utf-8"
    THEN [ok |-> FALSE, err |-> "Invalid token UTF-8", cap |-> <<>>]
    ELSE IF token.fmt # "json"
    THEN [ok |-> FALSE, err |-> "Invalid token JSON", cap |-> <<>>]
    ELSE [ok |-> TRUE, err |-> "",
          cap |-> Capability_deserialize(token.json)]

\* format!("{}:{}:{}:{}", path.display(), permissions, expiration secs, owner)
sign_data(cap) ==
    <<Display(cap.path), cap.permissions, as_secs(cap.expiration), cap.owner>>

\* hmac::sign(key, data), then base64url of the tag.
hmac_tag(secret, data) == [key |-> secret, data |-> data]

sign(cap, secret) ==
    [cap EXCEPT !.signature =
        <<[enc |-> "base64url", tag |-> hmac_tag(secret, sign_data(cap))]>>]

\* A verification that compares the signed data and not the key.
verify_any_key(cap, secret) ==
    IF cap.signature = <<>> THEN FALSE
    ELSE IF cap.signature[1].enc # "base64url" THEN FALSE
    ELSE cap.signature[1].tag.data = sign_data(cap)

verify(cap, secret) ==
    IF cap.signature = <<>> THEN FALSE
    ELSE IF cap.signature[1].enc # "base64url" THEN FALSE
    ELSE cap.signature[1].tag = hmac_tag(secret, sign_data(cap))

(* --------------------------- SecurityConfig --------------------------- *)
\* SecurityConfig::default(), with require_signatures as configured.
SecurityConfig(require_signatures) ==
    [default_permissions |-> 4,
     max_token_lifetime |-> Secs(MAX_TOKEN_LIFETIME_SECS),
     require_signatures |-> require_signatures,
     hmac_secret |-> HMAC_SECRET]

(* ------------------------------ variables ----------------------------- *)
VARIABLES
    now,                  \* SystemTime::now(), in ticks
    env_token,            \* std::env::var("GNOS_TOKEN"): Option<token>
    config,               \* CapabilityManager.config
    active_capabilities,  \* HashMap<String, Capability>
    capability_cache,     \* HashMap<String, (Capability, SystemTime)>
    audit_log,            \* Vec<AuditEntry>
    ret,                  \* what the last call returned, if the last
                          \* step was the return of a call
    issued,               \* tokens that grant_capability has returned
    revoked_at,           \* token -> instant its revoke_capability returned
    calls,                \* how many check_permission calls were made
    pc,                   \* per task: where it is inside the call it makes
    pend,                 \* per task: the locals of that call
    inodes,               \* InodeManager.inodes
    path_to_ino,          \* InodeManager.path_to_ino
    drivers,              \* DriverRegistry.drivers (names of the registered)
    open_files,           \* GnosFileSystem.open_files
    next_fh,              \* GnosFileSystem.next_fh
    reply,                \* what the last protocol operation replied
    backend_io            \* the calls GnosDriver::read/write have received

cm_vars == <<now, env_token, config, active_capabilities, capability_cache,
             audit_log, ret, issued, revoked_at, calls>>
task_vars == <<pc, pend>>
fs_vars == <<inodes, path_to_ino, drivers, open_files, next_fh, reply,
             backend_io>>
vars == <<cm_vars, task_vars, fs_vars>>

(* -------------------------- CapabilityManager ------------------------- *)
\* SHA-256 of "{path}:{permissions}:{owner}:{issued_at secs}", base64url.
hash_capability(cap) ==
    [sha256 |-> <<Display(cap.path), cap.permissions, cap.owner,
                  as_secs(cap.issued_at)>>]

\* HashMap::insert and HashMap::remove.
map_insert(m, k, v) == [x \in DOMAIN m \cup {k} |-> IF x = k THEN v ELSE m[x]]
map_remove(m, k) == [x \in DOMAIN m \ {k} |-> m[x]]
EmptyMap == <<>>

\* A validate_token that trusts a cache entry whatever its age.
validate_token_any_age(token, cache, cfg, t) ==
    IF /\ token \in DOMAIN cache
       /\ ~is_expired(cache[token].cap, t)
    THEN [ok |-> TRUE, err |-> "", cap |-> cache[token].cap, cache |-> cache]
    ELSE LET parsed == from_token(token) IN
         IF ~parsed.ok
         THEN [ok |-> FALSE, err |-> parsed.err, cap |-> parsed.cap,
               cache |-> cache]
         ELSE IF is_expired(parsed.cap, t)
         THEN [ok |-> FALSE, err |-> "Capability expired", cap |-> parsed.cap,
               cache |-> cache]
         ELSE IF cfg.require_signatures /\ ~verify(parsed.cap, cfg.hmac_secret)
         THEN [ok |-> FALSE, err |-> "Invalid signature", cap |-> parsed.cap,
               cache |-> cache]
         ELSE [ok |-> TRUE, err |-> "", cap |-> parsed.cap,
               cache |-> map_insert(cache, token,
                                    [cap |-> parsed.cap, cached_at |-> t])]

\* validate_token: the cache first, then decode, expiry, signature, and the
\* insertion into the cache.  cache is the cache as the call leaves it.
validate_token(token, cache, cfg, t) ==
    IF /\ token \in DOMAIN cache
       /\ t - cache[token].cached_at < Secs(CACHE_TTL_SECS)
       /\ ~is_expired(cache[token].cap, t)
    THEN [ok |-> TRUE, err |-> "", cap |-> cache[token].cap, cache |-> cache]
    ELSE LET parsed == from_token(token) IN
         IF ~parsed.ok
         THEN [ok |-> FALSE, err |-> parsed.err, cap |-> parsed.cap,
               cache |-> cache]
         ELSE IF is_expired(parsed.cap, t)
         THEN [ok |-> FALSE, err |-> "Capability expired", cap |-> parsed.cap,
               cache |-> cache]
         ELSE IF cfg.require_signatures /\ ~verify(parsed.cap, cfg.hmac_secret)
         THEN [ok |-> FALSE, err |-> "Invalid signature", cap |-> parsed.cap,
               cache |-> cache]
         ELSE [ok |-> TRUE, err |-> "", cap |-> parsed.cap,
               cache |-> map_insert(cache, token,
                                    [cap |-> parsed.cap, cached_at |-> t])]

AuditEntry(t, operation, path, owner, success, reason) ==
    [timestamp |-> t, operation |-> operation, path |-> path,
     owner |-> owner, success |-> success, reason |-> reason]

\* log_access, first statement: take the write lock, push, release.
log_push(log, entry) == Append(log, entry)

\* log_access, second statement: take the write lock again and trim.
log_trim(log) ==
    IF Len(log) > AUDIT_MAX
    THEN SubSeq(log, AUDIT_DRAIN + 1, Len(log))
    ELSE log

\* log_access run by a single caller with no other task in between.
log_access(log, entry) == log_trim(log_push(log, entry))

\* The active capabilities the scan of check_permission accepts.
active_matches(path, operation, active, t) ==
    {id \in DOMAIN active :
        /\ is_valid_for_path(active[id], path)
        /\ allows(active[id], operation)
        /\ ~is_expired(active[id], t)}

\* The three ways check_permission ends.  Each outcome holds the result,
\* the cache as validate_token left it, and the log_access calls made on the
\* way, in order.
token_outcome(path, operation, cap, cache, t) ==
    [ok |-> TRUE, via |-> "token", reason |-> <<>>, cache |-> cache,
     logged |-> <<AuditEntry(t, operation, path, cap.owner, TRUE, <<>>)>>]

active_outcome(path, operation, cap, cache, t) ==
    [ok |-> TRUE, via |-> "active", reason |-> <<>>, cache |-> cache,
     logged |-> <<AuditEntry(t, operation, path, cap.owner, TRUE, <<>>)>>]

\* cleanup_expired with a cache sweep that looks at the capability's own
\* expiration only.
cleanup_cache_expiry_only(cache, t) ==
    [tok \in {k \in DOMAIN cache : ~is_expired(cache[k].cap, t)}
        |-> cache[tok]]

\* A denial whose audit entry carries no reason.
deny_outcome_no_reason(path, operation, cache, t) ==
    [ok |-> FALSE, via |-> "none",
     reason |-> <<"No valid capability found">>, cache |-> cache,
     logged |-> <<AuditEntry(t, operation, path, "unknown", FALSE, <<>>)>>]

\* A denial that returns without its log_access call.
deny_outcome_unlogged(path, operation, cache, t) ==
    [ok |-> FALSE, via |-> "none",
     reason |-> <<"No valid capability found">>, cache |-> cache,
     logged |-> <<>>]

deny_outcome(path, operation, cache, t) ==
    [ok |-> FALSE, via |-> "none",
     reason |-> <<"No valid capability found">>, cache |-> cache,
     logged |-> <<AuditEntry(t, operation, path, "unknown", FALSE,
                             <<"No valid capability found">>)>>]

\* check_permission up to its log_access call: the outcomes it can have.
\* HashMap::values() iterates in no specified order, so with several matching
\* active capabilities any of them can be the one found.
check_permission(path, operation, env, cache, active, cfg, t) ==
    LET v == IF env = <<>>
             THEN [ok |-> FALSE, err |-> "", cache |-> cache]
             ELSE validate_token(env[1], cache, cfg, t)
        matches == active_matches(path, operation, active, t)
    IN  IF /\ v.ok
           /\ is_valid_for_path(v.cap, path)
           /\ allows(v.cap, operation)
        THEN {token_outcome(path, operation, v.cap, v.cache, t)}
        ELSE IF matches # {}
        THEN {active_outcome(path, operation, active[id], v.cache, t) :
                 id \in matches}
        ELSE {deny_outcome(path, operation, v.cache, t)}

\* security/mod.rs, CapabilityManager::check_permission: the manager that
\* lib.rs re-exports.  Both of its paths return Ok(()).
dev_check_permission(path, operation, env, t) ==
    IF /\ env # <<>>
       /\ from_token(env[1]).ok
       /\ is_valid_for_path(from_token(env[1]).cap, path)
       /\ allows(from_token(env[1]).cap, operation)
       /\ ~is_expired(from_token(env[1]).cap, t)
    THEN [ok |-> TRUE, via |-> "token"]
    ELSE [ok |-> TRUE, via |-> "development mode"]

\* A grant_capability that takes the requested duration as it is.
grant_capability_unclamped(path, permissions, owner, duration, cfg, t) ==
    LET cap == Capability_new(path, permissions, owner, duration, t)
    IN  IF cfg.require_signatures THEN sign(cap, cfg.hmac_secret) ELSE cap

\* grant_capability: the capability it stores and whose token it returns.
grant_capability(path, permissions, owner, duration, cfg, t) ==
    LET d == Min(duration, cfg.max_token_lifetime)
        cap == Capability_new(path, permissions, owner, d, t)
    IN  IF cfg.require_signatures THEN sign(cap, cfg.hmac_secret) ELSE cap

\* revoke_capability on a token that decodes: the two removals.
\* A revocation that empties the active set.
revoke_active_all(active, cap) == EmptyMap

revoke_active(active, cap) == map_remove(active, hash_capability(cap))
revoke_cache(cache, token, cap) == map_remove(cache, hash_capability(cap))

\* cleanup_expired: the two retain calls.
cleanup_active(active, t) ==
    [id \in {i \in DOMAIN active : ~is_expired(active[i], t)} |-> active[id]]

cleanup_cache(cache, t) ==
    [tok \in {k \in DOMAIN cache :
                 /\ ~is_expired(cache[k].cap, t)
                 /\ t - cache[k].cached_at < Secs(CLEANUP_CACHE_SECS)}
        |-> cache[tok]]

(* ------------------- inputs the model draws from ---------------------- *)
\* The instants at which something happens: the epoch, and the first tick
\* that is more than the cache window later.
Instants == {0, Secs(CACHE_TTL_SECS) + 1}

\* grant_capability(path, permissions, owner, duration)
GrantInputs ==
    {<<P_cloud, 4, "alice", Secs(30)>>,
     <<P_cloud, 6, "bob", Secs(2 * MAX_TOKEN_LIFETIME_SECS)>>}

\* The same, and a grant for no time at all (Duration::ZERO).
LifetimeGrantInputs == GrantInputs \cup {<<P_net, 4, "carol", 0>>}

\* check_permission(path, operation)
CheckInputs ==
    {<<P_cloud_aws, "Read">>, <<P_cloud_aws, "Write">>, <<P_cloud2_x, "Read">>}

\* Tokens nobody was granted: a capability without a signature, one signed
\* with another secret, and a string without the "gnos." prefix.
ForgedCapability ==
    Capability_new(P_cloud, 7, "mallory", Secs(MAX_TOKEN_LIFETIME_SECS), 0)
UnsignedToken == to_token(ForgedCapability)
WrongKeyToken == to_token(sign(ForgedCapability, "k2"))
NoPrefixToken == [to_token(ForgedCapability) EXCEPT !.prefix = "gnoz."]
ForeignTokens == {UnsignedToken, WrongKeyToken, NoPrefixToken}

\* A well-formed token nobody was granted: it names the path, permissions,
\* owner and issuance second of the grant of task 2, with another lifetime
\* and no signature.
LookalikeToken == to_token(Capability_new(P_cloud, 6, "bob", Secs(1), 0))

\* Capabilities a caller builds with Capability::new: two paths, two
\* permission sets, two owners, issued on a second or a tick past it, for
\* thirty seconds or a tick more.
TokenCaps ==
    {Capability_new(path, permissions, owner, duration, t) :
        path \in {P_cloud, P_net}, permissions \in {4, 6},
        owner \in {"alice", "bob"},
        duration \in {Secs(30), Secs(30) + 1}, t \in {0, 1}}
Secrets == {HMAC_SECRET, "k2"}

\* Strings from_token rejects: no "gnos." prefix, a payload that is not
\* base64url, bytes that are not UTF-8, text that is not the JSON of a
\* capability.
BadEncodingToken == [to_token(ForgedCapability) EXCEPT !.enc = "not base64"]
BadUtf8Token == [to_token(ForgedCapability) EXCEPT !.fmt = "not utf-8"]
BadJsonToken == [to_token(ForgedCapability) EXCEPT !.fmt = "not json"]
MalformedTokens ==
    {NoPrefixToken, BadEncodingToken, BadUtf8Token, BadJsonToken}

\* The fields of a capability other than its signature.
Unsigned(cap) == [cap EXCEPT !.signature = <<>>]

\* Err(GnosError::PermissionDenied(format!(
\*     "Access denied to {} for {:?}: {}", path.display(), operation, reason)))
denied_error(path, operation, reason) ==
    <<"PermissionDenied", "Access denied to ", Display(path), " for ",
      operation, ": ", reason>>

Ret(call, impl, ok, err, path, operation, token, via) ==
    [call |-> call, impl |-> impl, ok |-> ok, err |-> err, path |-> path,
     operation |-> operation, token |-> token, via |-> via]

NoRet == Ret("none", "", TRUE, <<>>, <<>>, "", <<>>, "")

\* What sign, verify, to_token or from_token returned: the token it was
\* applied to, the secret it was given and the capability it produced.
TokenRet(call, ok, err, token, secret, value) ==
    [call |-> call, impl |-> "capabilities.rs", ok |-> ok, err |-> err,
     path |-> <<>>, operation |-> "", token |-> token, via |-> "",
     secret |-> secret, value |-> value]

(* ------------------------------- Init --------------------------------- *)
\* CapabilityManager::new, and the audit log that earlier requests left.
InitManagerWith(log) ==
    /\ now = 0
    /\ env_token = <<>>
    /\ config = SecurityConfig(TRUE)
    /\ active_capabilities = EmptyMap
    /\ capability_cache = EmptyMap
    /\ audit_log = log
    /\ ret = NoRet
    /\ issued = {}
    /\ revoked_at = EmptyMap
    /\ calls = 0

InitManager == InitManagerWith(<<>>)

(* --------------------- CapabilityManager, one caller ------------------ *)
\* The clock moves on.
Advance(t) ==
    /\ t > now
    /\ now' = t
    /\ ret' = NoRet
    /\ UNCHANGED <<env_token, config, active_capabilities, capability_cache,
                   audit_log, issued, revoked_at, calls>>

\* The calling context sets or clears GNOS_TOKEN.
SetEnv(e) ==
    /\ e # env_token
    /\ env_token' = e
    /\ ret' = NoRet
    /\ UNCHANGED <<now, config, active_capabilities, capability_cache,
                   audit_log, issued, revoked_at, calls>>

GrantCapability(path, permissions, owner, duration) ==
    /\ Cardinality(issued) < MaxGrants
    /\ LET cap == grant_capability(path, permissions, owner, duration,
                                   config, now)
       IN  /\ active_capabilities' =
                 map_insert(active_capabilities, hash_capability(cap), cap)
           /\ issued' = issued \cup {to_token(cap)}
           /\ ret' = NoRet
    /\ UNCHANGED <<now, env_token, config, capability_cache, audit_log,
                   revoked_at, calls>>

RevokeCapability(token) ==
    /\ LET parsed == from_token(token) IN
       IF ~parsed.ok
       THEN UNCHANGED <<active_capabilities, capability_cache, revoked_at>>
       ELSE /\ active_capabilities' =
                  revoke_active(active_capabilities, parsed.cap)
            /\ capability_cache' =
                  revoke_cache(capability_cache, token, parsed.cap)
            /\ revoked_at' = map_insert(revoked_at, token, now)
    /\ ret' = NoRet
    /\ UNCHANGED <<now, env_token, config, audit_log, issued, calls>>

\* check_permission of security/capabilities.rs, run to its return.
CheckPermission(path, operation) ==
    /\ calls < MaxChecks
    /\ \E o \in check_permission(path, operation, env_token, capability_cache,
                                 active_capabilities, config, now) :
          /\ capability_cache' = o.cache
          /\ audit_log' = IF Len(o.logged) = 0 THEN audit_log
                          ELSE IF Len(o.logged) = 1
                          THEN log_access(audit_log, o.logged[1])
                          ELSE log_access(log_access(audit_log, o.logged[1]),
                                          o.logged[2])
          /\ ret' = Ret("check_permission", "capabilities.rs", o.ok,
                        IF o.ok THEN <<>>
                        ELSE denied_error(path, operation, o.reason[1]),
                        path, operation, env_token, o.via)
    /\ calls' = calls + 1
    /\ UNCHANGED <<now, env_token, config, active_capabilities, issued,
                   revoked_at>>

\* check_permission of security/mod.rs, run to its return.
DevCheckPermission(path, operation) ==
    /\ calls < MaxChecks
    /\ LET o == dev_check_permission(path, operation, env_token, now) IN
       ret' = Ret("check_permission", "mod.rs", o.ok, <<>>, path, operation,
                  env_token, o.via)
    /\ calls' = calls + 1
    /\ UNCHANGED <<now, env_token, config, active_capabilities,
                   capability_cache, audit_log, issued, revoked_at>>

CleanupExpired ==
    /\ active_capabilities' = cleanup_active(active_capabilities, now)
    /\ capability_cache' = cleanup_cache(capability_cache, now)
    /\ ret' = Ret("cleanup_expired", "capabilities.rs", TRUE, <<>>, <<>>, "",
                  <<>>, "")
    /\ UNCHANGED <<now, env_token, config, audit_log, issued, revoked_at,
                   calls>>

(* ------------------- Capability, tokens and signatures --------------- *)
\* A caller builds a capability and encodes it: Capability::new, to_token.
\* The token is what the caller holds from then on (GNOS_TOKEN).
InitToken ==
    /\ now = 0
    /\ env_token \in {<<to_token(cap)>> : cap \in TokenCaps}
                      \cup {<<k>> : k \in MalformedTokens}
    /\ config = SecurityConfig(TRUE)
    /\ active_capabilities = EmptyMap
    /\ capability_cache = EmptyMap
    /\ audit_log = <<>>
    /\ ret = NoRet
    /\ issued = {}
    /\ revoked_at = EmptyMap
    /\ calls = 0

\* capability.sign(secret) on a decoded capability that has no signature
\* yet, then to_token: the signed token joins the tokens handed out.
SignToken(secret) ==
    /\ env_token # <<>>
    /\ from_token(env_token[1]).ok
    /\ from_token(env_token[1]).cap.signature = <<>>
    /\ LET signed == sign(from_token(env_token[1]).cap, secret) IN
          /\ env_token' = <<to_token(signed)>>
          /\ issued' = issued \cup {to_token(signed)}
          /\ ret' = TokenRet("sign", TRUE, <<>>, env_token, secret,
                             <<signed>>)
    /\ UNCHANGED <<now, config, active_capabilities, capability_cache,
                   audit_log, revoked_at, calls>>

\* Whoever holds the signed token replaces its fields with those of
\* another capability and keeps the signature.
TamperToken(cap) ==
    /\ env_token # <<>>
    /\ from_token(env_token[1]).ok
    /\ from_token(env_token[1]).cap.signature # <<>>
    /\ cap # Unsigned(from_token(env_token[1]).cap)
    /\ env_token' =
          <<to_token([cap EXCEPT !.signature =
                         from_token(env_token[1]).cap.signature])>>
    /\ ret' = NoRet
    /\ UNCHANGED <<now, config, active_capabilities, capability_cache,
                   audit_log, issued, revoked_at, calls>>

\* Capability::from_token(token), then capability.verify(secret).
VerifyToken(secret) ==
    /\ env_token # <<>>
    /\ from_token(env_token[1]).ok
    /\ ret' = TokenRet("verify",
                       verify(from_token(env_token[1]).cap, secret),
                       <<>>, env_token, secret,
                       <<from_token(env_token[1]).cap>>)
    /\ UNCHANGED <<now, env_token, config, active_capabilities,
                   capability_cache, audit_log, issued, revoked_at, calls>>

\* Capability::from_token(token).
FromToken ==
    /\ env_token # <<>>
    /\ LET parsed == from_token(env_token[1]) IN
          ret' = TokenRet("from_token", parsed.ok,
                          IF parsed.ok THEN <<>> ELSE <<parsed.err>>,
                          env_token, "",
                          IF parsed.ok THEN <<parsed.cap>> ELSE <<>>)
    /\ UNCHANGED <<now, env_token, config, active_capabilities,
                   capability_cache, audit_log, issued, revoked_at, calls>>

(* ------------------ CapabilityManager, concurrent tasks --------------- *)
\* Tasks of the tokio runtime, each calling check_permission.  A task is
\* atomic between two .await points that can let another task in: up to the
\* log_access call, the push under the first write lock of log_access, and
\* the trim under its second write lock.
Tasks == 1..NTasks

Idle == [logged |-> <<>>, ok |-> TRUE, via |-> "", path |-> <<>>,
         operation |-> "", env |-> <<>>]

InFlight == {t \in Tasks : pc[t] # "idle"}

\* An audit log that n denied requests have filled.
Prefilled(n) ==
    [i \in 1..n |-> AuditEntry(0, "Read", P_net_http, "unknown", FALSE,
                               <<"No valid capability found">>)]

InitTasks ==
    /\ pc = [t \in Tasks |-> "idle"]
    /\ pend = [t \in Tasks |-> Idle]

TaskReturn(t, o) ==
    /\ ret' = Ret("check_permission", "capabilities.rs", o.ok,
                  IF o.ok THEN <<>>
                  ELSE denied_error(o.path, o.operation,
                                    o.logged[1].reason[1]),
                  o.path, o.operation, o.env, o.via)
    /\ pc' = [pc EXCEPT ![t] = "idle"]
    /\ pend' = [pend EXCEPT ![t] = Idle]

\* check_permission up to its log_access call.
TaskBegin(t, path, operation) ==
    /\ pc[t] = "idle"
    /\ calls < MaxChecks
    /\ \E o \in check_permission(path, operation, env_token, capability_cache,
                                 active_capabilities, config, now) :
          /\ capability_cache' = o.cache
          /\ pend' = [pend EXCEPT ![t] =
                         [logged |-> o.logged, ok |-> o.ok, via |-> o.via,
                          path |-> path, operation |-> operation,
                          env |-> env_token]]
          /\ pc' = [pc EXCEPT ![t] = "push"]
    /\ calls' = calls + 1
    /\ ret' = NoRet
    /\ UNCHANGED <<now, env_token, config, active_capabilities, audit_log,
                   issued, revoked_at>>

\* self.audit_log.write().await.push(entry);
TaskPush(t) ==
    /\ pc[t] = "push"
    /\ audit_log' = log_push(audit_log, pend[t].logged[1])
    /\ pc' = [pc EXCEPT ![t] = "trim"]
    /\ ret' = NoRet
    /\ UNCHANGED <<now, env_token, config, active_capabilities,
                   capability_cache, issued, revoked_at, calls, pend>>

\* let mut log = self.audit_log.write().await; if log.len() > 10_000 {...}
\* and the return of check_permission.
TaskTrim(t) ==
    /\ pc[t] = "trim"
    /\ audit_log' = log_trim(audit_log)
    /\ TaskReturn(t, pend[t])
    /\ UNCHANGED <<now, env_token, config, active_capabilities,
                   capability_cache, issued, revoked_at, calls>>

\* Tasks calling grant_capability, task t with the arguments GrantOfTask(t):
\* pairwise distinct paths, the first of which covers the second.
GrantOfTask(t) ==
    CASE t = 1 -> <<P_root, 6, "alice", Secs(3600)>>
      [] t = 2 -> <<P_cloud, 6, "bob", Secs(3600)>>
      [] OTHER -> <<P_net, 6, "carol", Secs(3600)>>

\* grant_capability up to self.active_capabilities.write().await: the
\* capability is built from the clock, signed, encoded and hashed.
TaskGrantBegin(t) ==
    /\ pc[t] = "idle"
    /\ LET g == GrantOfTask(t)
           cap == grant_capability(g[1], g[2], g[3], g[4], config, now)
       IN  pend' = [pend EXCEPT ![t] =
                       [cap |-> cap, token |-> to_token(cap),
                        capability_id |-> hash_capability(cap), order |-> 0]]
    /\ pc' = [pc EXCEPT ![t] = "insert"]
    /\ ret' = NoRet
    /\ UNCHANGED <<now, env_token, config, active_capabilities,
                   capability_cache, audit_log, issued, revoked_at, calls>>

\* The insert under the write lock, and the return of the token.  order
\* records the how-manieth insert into the active set this one was.
TaskGrantInsert(t) ==
    /\ pc[t] = "insert"
    /\ active_capabilities' =
          map_insert(active_capabilities, pend[t].capability_id, pend[t].cap)
    /\ issued' = issued \cup {pend[t].token}
    /\ pend' = [pend EXCEPT ![t].order =
                   1 + Cardinality({u \in Tasks : pc[u] = "granted"})]
    /\ pc' = [pc EXCEPT ![t] = "granted"]
    /\ ret' = NoRet
    /\ UNCHANGED <<now, env_token, config, capability_cache, audit_log,
                   revoked_at, calls>>

(* ------------------- CapabilityManager, the three locks --------------- *)
\* The order in which each operation takes and drops the read and write
\* guards of active_capabilities ("active"), capability_cache ("cache") and
\* audit_log ("audit"); what is read and written under them is in the
\* actions above.  An instruction is <<"acq", lock, mode>> or
\* <<"rel", lock, "">>.  tokio's RwLock queues its waiters first come,
\* first served.

\* A log_access that keeps its first write guard while it takes the second.
log_access_locks_one_guard ==
    <<<<"acq", "audit", "W">>, <<"acq", "audit", "W">>,
      <<"rel", "audit", "">>, <<"rel", "audit", "">>>>

\* log_access: a write guard for the push, dropped at the end of the
\* statement, and a second one for the trim.
log_access_locks ==
    <<<<"acq", "audit", "W">>, <<"rel", "audit", "">>,
      <<"acq", "audit", "W">>, <<"rel", "audit", "">>>>

\* validate_token: the read guard of the lookup, and the write guard of
\* the insertion when the token was validated in full.
validate_token_locks(inserted) ==
    <<<<"acq", "cache", "R">>, <<"rel", "cache", "">>>>
    \o (IF inserted
        THEN <<<<"acq", "cache", "W">>, <<"rel", "cache", "">>>>
        ELSE <<>>)

\* The lock instructions of one call, by operation and by the branch the
\* call takes.
LockProgram(op) ==
    CASE op = "none" -> <<>>
      [] op = "check_permission, cached token" ->
            validate_token_locks(FALSE) \o log_access_locks
      [] op = "check_permission, validated token" ->
            validate_token_locks(TRUE) \o log_access_locks
      [] op = "check_permission, active set" ->
            <<<<"acq", "active", "R">>>> \o log_access_locks
            \o <<<<"rel", "active", "">>>>
      [] op = "check_permission, rejected token, active set" ->
            validate_token_locks(FALSE) \o <<<<"acq", "active", "R">>>>
            \o log_access_locks \o <<<<"rel", "active", "">>>>
      [] op = "grant_capability" ->
            <<<<"acq", "active", "W">>, <<"rel", "active", "">>>>
      [] op \in {"revoke_capability", "cleanup_expired"} ->
            <<<<"acq", "active", "W">>, <<"rel", "active", "">>,
              <<"acq", "cache", "W">>, <<"rel", "cache", "">>>>
      [] op = "get_stats" ->
            <<<<"acq", "active", "R">>, <<"acq", "cache", "R">>,
              <<"acq", "audit", "R">>, <<"rel", "audit", "">>,
              <<"rel", "cache", "">>, <<"rel", "active", "">>>>
      [] op = "get_audit_log" ->
            <<<<"acq", "audit", "R">>, <<"rel", "audit", "">>>>

\* The operations each task calls: between them the tasks make every
\* operation, and two of them make check_permission.
LockOps(t) ==
    CASE t = 1 -> {"check_permission, validated token",
                   "check_permission, rejected token, active set",
                   "check_permission, cached token", "get_audit_log"}
      [] t = 2 -> {"check_permission, active set", "grant_capability",
                   "revoke_capability", "cleanup_expired", "get_stats"}
      [] OTHER -> {"check_permission, active set", "cleanup_expired"}

NotCalling == [op |-> "none", at |-> 1, ticket |-> 0]

\* Task u holds the guard of lock in mode: it took it and has not dropped it.
Holds(u, lock, mode) ==
    \E i \in 1..(pend[u].at - 1) :
        /\ LockProgram(pend[u].op)[i] = <<"acq", lock, mode>>
        /\ \A j \in (i + 1)..(pend[u].at - 1) :
              LockProgram(pend[u].op)[j] # <<"rel", lock, "">>

\* The tasks queued for lock.
Waiting(lock) ==
    {u \in Tasks : pc[u] = "waiting"
                     /\ LockProgram(pend[u].op)[pend[u].at][2] = lock}

\* Task t calls op.
LockBegin(t, op) ==
    /\ pc[t] = "idle"
    /\ pc' = [pc EXCEPT ![t] = "running"]
    /\ pend' = [pend EXCEPT ![t] = [op |-> op, at |-> 1, ticket |-> 0]]
    /\ UNCHANGED cm_vars

\* Task t runs up to its next await: it joins the queue of a lock, is
\* given the guard it queued for, drops a guard, or returns.
LockStep(t) ==
    /\ pc[t] # "idle"
    /\ LET prog == LockProgram(pend[t].op)
           at == pend[t].at
       IN  IF at > Len(prog)
           THEN /\ pc' = [pc EXCEPT ![t] = "idle"]
                /\ pend' = [pend EXCEPT ![t] = NotCalling]
           ELSE IF prog[at][1] = "rel"
           THEN /\ pend' = [pend EXCEPT ![t].at = at + 1]
                /\ UNCHANGED pc
           ELSE IF pc[t] = "running"
           THEN /\ pc' = [pc EXCEPT ![t] = "waiting"]
                /\ pend' = [pend EXCEPT ![t].ticket =
                              1 + Cardinality(Waiting(prog[at][2]))]
           ELSE /\ \A u \in Tasks :
                      /\ ~Holds(u, prog[at][2], "W")
                      /\ prog[at][3] = "W" => ~Holds(u, prog[at][2], "R")
                /\ pend[t].ticket = 1
                /\ pc' = [pc EXCEPT ![t] = "running"]
                /\ pend' = [u \in Tasks |->
                              IF u = t
                              THEN [pend[u] EXCEPT !.at = at + 1,
                                                   !.ticket = 0]
                              ELSE IF u \in Waiting(prog[at][2])
                              THEN [pend[u] EXCEPT !.ticket = @ - 1]
                              ELSE pend[u]]
    /\ UNCHANGED cm_vars

(* ----------------------------- InodeManager --------------------------- *)
ROOT_INODE == 1

new_directory(ino, path, t) ==
    [ino |-> ino, path |-> path, is_dir |-> TRUE, size |-> 4096,
     permissions |-> 493, mtime |-> t, ctime |-> t, crtime |-> t]

new_file(ino, path, t) ==
    [ino |-> ino, path |-> path, is_dir |-> FALSE, size |-> 0,
     permissions |-> 420, mtime |-> t, ctime |-> t, crtime |-> t]

\* create_directory / create_file: the two insertions.  A manager is the
\* pair of its maps.
create_inode(im, inode) ==
    [inodes |-> map_insert(im.inodes, inode.ino, inode),
     path_to_ino |-> map_insert(im.path_to_ino, inode.path, inode.ino)]

create_directory(im, ino, path, t) == create_inode(im, new_directory(ino, path, t))
create_file(im, ino, path, t) == create_inode(im, new_file(ino, path, t))

get(inos, ino) == IF ino \in DOMAIN inos THEN <<inos[ino]>> ELSE <<>>
find_by_path(p2i, path) == IF path \in DOMAIN p2i THEN <<p2i[path]>> ELSE <<>>

\* InodeManager::new and the creations of GnosFileSystem::new, in order.
SeededInodes ==
    LET m0 == [inodes |-> EmptyMap, path_to_ino |-> EmptyMap]
        m1 == create_directory(m0, ROOT_INODE, P_root, 0)
        m2 == create_directory(m1, 2, P_proc, 0)
        m3 == create_directory(m2, 3, P_cloud, 0)
        m4 == create_directory(m3, 4, P_net, 0)
        m5 == create_directory(m4, 5, P_dev, 0)
    IN  create_file(m5, 10, P_llama3, 0)

(* ---------------------------- DriverRegistry -------------------------- *)
\* The drivers whose source is in the repository.
\* A registered driver is its registry key and the directory whose subtree
\* its supports() claims.
CloudDriver == [name |-> "cloud", dir |-> "cloud"]
HttpDriver == [name |-> "http", dir |-> "net"]

\* drivers/ai.rs is not part of the sources at hand.  Its supports() is a
\* prefix test like the others', on a directory the sources do not tell.
AiDirs == {"proc", "cloud"}
AiDriver(dir) == [name |-> "ai", dir |-> dir]

KnownDrivers == {CloudDriver, HttpDriver}

\* DriverRegistry::new inserts the enabled drivers in this order.
RegistrationOrder == <<"ai", "cloud", "http">>

\* The registries DriverRegistry::new can build, by the enabled flags.
Registries ==
    {ai \cup cl \cup ht :
        ai \in {{}} \cup {{AiDriver(d)} : d \in AiDirs},
        cl \in {{}, {CloudDriver}},
        ht \in {{}, {HttpDriver}}}

\* path.to_string_lossy().starts_with("/<dir>/"): the first component is
\* dir and something follows it.
display_starts_with_dir(path, dir) == Len(path) >= 2 /\ path[1] = dir

supports(driver, path) == display_starts_with_dir(path, driver.dir)

\* A byte string is a sequence of chunks; offsets and sizes count chunks.
driver_read(driver, path) ==
    CASE driver.name = "cloud" ->
            <<"GNOS Cloud Driver / Path: ", Display(path),
              " / Status: Simulated">>
      [] driver.name = "http" ->
            <<"GNOS HTTP Driver / Path: ", Display(path),
              " / Status: Simulated">>

\* get_driver: the results it can have.  HashMap::values() iterates in no
\* specified order, so any supporting driver can be the first one found.
\* A get_driver that gives up after the first driver it looks at.
get_driver_first_only(registry, path) ==
    IF registry = {} THEN {<<>>}
    ELSE {IF supports(d, path) THEN <<d>> ELSE <<>> : d \in registry}

get_driver(registry, path) ==
    IF \E d \in registry : supports(d, path)
    THEN {<<d>> : d \in {x \in registry : supports(x, path)}}
    ELSE {<<>>}

(* ---------------------------- GnosFileSystem -------------------------- *)
Reply(op, kind, fh, path, data, errno) ==
    [op |-> op, kind |-> kind, fh |-> fh, path |-> path, data |-> data,
     errno |-> errno]

\* format!("GNOS Virtual File: {}\n", path.display()).into_bytes()
placeholder_bytes(path) == <<"GNOS Virtual File: ", Display(path), "\n">>

\* The slice read replies with.
read_slice(data, offset, size) ==
    LET start == offset
        end == Min(start + size, Len(data))
    IN  IF start < Len(data) THEN SubSeq(data, start + 1, end) ELSE <<>>

InitFs ==
    /\ inodes = SeededInodes.inodes
    /\ path_to_ino = SeededInodes.path_to_ino
    /\ drivers = KnownDrivers
    /\ open_files = EmptyMap
    /\ next_fh = 1
    /\ reply = Reply("none", "none", 0, <<>>, <<>>, "")
    /\ backend_io = <<>>

CreateInos == {10, 20}
CreatePaths == {P_a, P_b, P_cloud_aws}
FsCreateFiles == {<<20, P_cloud_aws>>, <<10, P_a>>}
FsCreateDirectories == {<<20, P_cloud_aws>>}
OpenInos == {ROOT_INODE, 10, 20, 99}
ReadOffsets == {0, 3}
ReadSizes == {1, 4096}
WriteData == {<<"x", "y">>}

ImCreateDirectory(ino, path) ==
    /\ LET im == create_directory([inodes |-> inodes,
                                   path_to_ino |-> path_to_ino], ino, path, now)
       IN  inodes' = im.inodes /\ path_to_ino' = im.path_to_ino
    /\ UNCHANGED <<drivers, open_files, next_fh, reply, backend_io>>

ImCreateFile(ino, path) ==
    /\ LET im == create_file([inodes |-> inodes,
                              path_to_ino |-> path_to_ino], ino, path, now)
       IN  inodes' = im.inodes /\ path_to_ino' = im.path_to_ino
    /\ UNCHANGED <<drivers, open_files, next_fh, reply, backend_io>>

\* A call of DriverRegistry::get_driver(path); the reply holds its result.
DriverPaths ==
    {P_root, P_proc, P_cloud, P_net, P_dev, P_llama3, P_cloud_aws,
     P_cloud2_x, P_net_http, P_a}

RegistryGetDriver(path) ==
    /\ \E d \in get_driver(drivers, path) :
          reply' = Reply("get_driver", IF d = <<>> THEN "none" ELSE "some",
                         0, <<path>>, d, "")
    /\ UNCHANGED <<inodes, path_to_ino, drivers, open_files, next_fh,
                   backend_io>>

\* An open that takes a handle number before it looks the inode up.
FsOpen_count_failures(ino) ==
    /\ next_fh <= MaxOpens
    /\ next_fh' = next_fh + 1
    /\ IF get(inodes, ino) # <<>> /\ ~get(inodes, ino)[1].is_dir
       THEN /\ open_files' = map_insert(open_files, next_fh,
                                [path |-> get(inodes, ino)[1].path,
                                 data |-> <<>>])
            /\ reply' = Reply("open", "opened", next_fh,
                              <<get(inodes, ino)[1].path>>, <<>>, "")
       ELSE /\ reply' = Reply("open", "error", 0, <<>>, <<>>,
                              "ENOENT")
            /\ UNCHANGED open_files
    /\ UNCHANGED <<inodes, path_to_ino, drivers, backend_io>>

FsOpen(ino) ==
    /\ next_fh <= MaxOpens
    /\ IF get(inodes, ino) # <<>> /\ ~get(inodes, ino)[1].is_dir
       THEN /\ next_fh' = next_fh + 1
            /\ open_files' = map_insert(open_files, next_fh,
                                [path |-> get(inodes, ino)[1].path,
                                 data |-> <<>>])
            /\ reply' = Reply("open", "opened", next_fh,
                              <<get(inodes, ino)[1].path>>, <<>>, "")
       ELSE /\ reply' = Reply("open", "error", 0, <<>>, <<>>,
                              "ENOENT")
            /\ UNCHANGED <<open_files, next_fh>>
    /\ UNCHANGED <<inodes, path_to_ino, drivers, backend_io>>

FsRead(fh, offset, size) ==
    /\ IF fh \in DOMAIN open_files
       THEN reply' = Reply("read", "data", fh,
                           <<open_files[fh].path>>,
                           read_slice(placeholder_bytes(open_files[fh].path),
                                      offset, size), "")
       ELSE reply' = Reply("read", "error", fh, <<>>, <<>>,
                           "EBADF")
    /\ UNCHANGED <<inodes, path_to_ino, drivers, open_files, next_fh,
                   backend_io>>

FsWrite(fh, data) ==
    /\ IF fh \in DOMAIN open_files
       THEN /\ open_files' = [open_files EXCEPT ![fh].data = <<data>>]
            /\ reply' = Reply("write", "written", fh,
                              <<open_files[fh].path>>, data, "")
       ELSE /\ reply' = Reply("write", "error", fh, <<>>,
                              <<>>, "EBADF")
            /\ UNCHANGED open_files
    /\ UNCHANGED <<inodes, path_to_ino, drivers, next_fh, backend_io>>

\* A release that makes the released handle the next one to hand out.
FsRelease_rewind(fh) ==
    /\ open_files' = map_remove(open_files, fh)
    /\ next_fh' = IF fh \in DOMAIN open_files THEN fh ELSE next_fh
    /\ reply' = Reply("release", "ok", fh, <<>>, <<>>, "")
    /\ UNCHANGED <<inodes, path_to_ino, drivers, backend_io>>

\* A release that leaves the handle in the table.
FsRelease_keep(fh) ==
    /\ reply' = Reply("release", "ok", fh, <<>>, <<>>, "")
    /\ UNCHANGED <<inodes, path_to_ino, drivers, open_files, next_fh,
                   backend_io>>

FsRelease(fh) ==
    /\ open_files' = map_remove(open_files, fh)
    /\ reply' = Reply("release", "ok", fh, <<>>, <<>>, "")
    /\ UNCHANGED <<inodes, path_to_ino, drivers, next_fh, backend_io>>

(* ------------------- GnosFileSystem, the address space --------------- *)
\* get_file_attr: None for an unknown inode (Err(PathNotFound)), else the
\* attributes built from it.
get_file_attr(inos, ino) ==
    IF get(inos, ino) = <<>> THEN <<>>
    ELSE LET inode == get(inos, ino)[1] IN
         <<[ino |-> ino, size |-> inode.size,
            blocks |-> (inode.size + 511) \div 512,
            kind |-> IF inode.is_dir THEN "Directory" ELSE "RegularFile",
            perm |-> inode.permissions,
            nlink |-> IF inode.is_dir THEN 2 ELSE 1]>>

\* lookup(parent, name): what it replies.
lookup(im, parent, name) ==
    IF get(im.inodes, parent) = <<>>
    THEN Reply("lookup", "error", 0, <<>>, <<>>, "ENOENT")
    ELSE LET child_path == Append(get(im.inodes, parent)[1].path, name)
             child == find_by_path(im.path_to_ino, child_path)
         IN  IF child = <<>>
             THEN Reply("lookup", "error", 0, <<>>, <<>>, "ENOENT")
             ELSE IF get_file_attr(im.inodes, child[1]) = <<>>
             THEN Reply("lookup", "error", 0, <<>>, <<>>, "EIO")
             ELSE Reply("lookup", "entry", 0, <<child_path>>,
                        get_file_attr(im.inodes, child[1]), "")

\* The table of readdir: the (name, ino) pairs listed for a directory id.
readdir_entries(ino) ==
    CASE ino = 1 -> <<<<"proc", 2>>, <<"cloud", 3>>, <<"net", 4>>,
                      <<"dev", 5>>>>
      [] ino = 2 -> <<<<"llama3", 10>>>>
      [] ino = 3 -> <<<<"aws", 20>>, <<"gcp", 21>>, <<"azure", 22>>>>
      [] ino = 4 -> <<<<"http", 30>>>>
      [] ino = 5 -> <<<<"sensors", 40>>>>
      [] OTHER -> <<>>

\* The ids that readdir, lookup and getattr are asked about.
ListingInos == {ROOT_INODE, 2, 3, 4, 5, 10, 20, 99}

\* readdir(ino, offset): the entries from offset on, each added to the
\* reply as a regular file (the reply buffer takes them all), then ok.
FsReaddir(ino, offset) ==
    /\ reply' = Reply("readdir", "ok", 0, <<>>,
                      [i \in 1..(Len(readdir_entries(ino)) - offset) |->
                          [name |-> readdir_entries(ino)[i + offset][1],
                           ino |-> readdir_entries(ino)[i + offset][2],
                           offset |-> i + offset,
                           kind |-> "RegularFile"]], "")
    /\ UNCHANGED <<inodes, path_to_ino, drivers, open_files, next_fh,
                   backend_io>>

FsLookup(parent, name) ==
    /\ reply' = lookup([inodes |-> inodes, path_to_ino |-> path_to_ino],
                       parent, name)
    /\ UNCHANGED <<inodes, path_to_ino, drivers, open_files, next_fh,
                   backend_io>>

FsGetattr(ino) ==
    /\ reply' = IF get_file_attr(inodes, ino) = <<>>
                THEN Reply("getattr", "error", 0, <<>>, <<>>, "ENOENT")
                ELSE Reply("getattr", "attr", 0, <<>>,
                           get_file_attr(inodes, ino), "")
    /\ UNCHANGED <<inodes, path_to_ino, drivers, open_files, next_fh,
                   backend_io>>

(* --------------------------- specifications --------------------------- *)
\* The capability manager with one caller at a time.
Init == InitManager /\ InitTasks /\ InitFs

Next ==
    \/ \E t \in Instants : Advance(t) /\ UNCHANGED <<task_vars, fs_vars>>
    \/ \E e \in {<<>>} \cup {<<k>> : k \in issued \cup
                                          {WrongKeyToken, UnsignedToken}} :
          SetEnv(e) /\ UNCHANGED <<task_vars, fs_vars>>
    \/ \E g \in GrantInputs :
          GrantCapability(g[1], g[2], g[3], g[4])
          /\ UNCHANGED <<task_vars, fs_vars>>
    \/ \E k \in issued \cup {NoPrefixToken} :
          RevokeCapability(k) /\ UNCHANGED <<task_vars, fs_vars>>
    \/ \E c \in CheckInputs :
          CheckPermission(c[1], c[2]) /\ UNCHANGED <<task_vars, fs_vars>>

Spec == Init /\ [][Next]_vars

\* The manager through the 300-second cache sweep: grants, the ambient token
\* of a grant, reads of /cloud/aws, and cleanup_expired.
CleanupInstants == {0, Secs(CACHE_TTL_SECS) + 1, Secs(CLEANUP_CACHE_SECS)}

NextCleanup ==
    \/ \E t \in CleanupInstants :
          Advance(t) /\ UNCHANGED <<task_vars, fs_vars>>
    \/ \E k \in issued : SetEnv(<<k>>) /\ UNCHANGED <<task_vars, fs_vars>>
    \/ \E g \in LifetimeGrantInputs :
          GrantCapability(g[1], g[2], g[3], g[4])
          /\ UNCHANGED <<task_vars, fs_vars>>
    \/ CheckPermission(P_cloud_aws, "Read")
          /\ UNCHANGED <<task_vars, fs_vars>>
    \/ CleanupExpired /\ UNCHANGED <<task_vars, fs_vars>>

SpecCleanup == Init /\ [][NextCleanup]_vars

\* Tokens and signatures: a capability is built and encoded, signed,
\* altered by its holder, decoded and verified.
InitTokenSpec == InitToken /\ InitTasks /\ InitFs

NextToken ==
    \/ \E secret \in Secrets :
          SignToken(secret) /\ UNCHANGED <<task_vars, fs_vars>>
    \/ \E cap \in TokenCaps :
          TamperToken(cap) /\ UNCHANGED <<task_vars, fs_vars>>
    \/ \E secret \in Secrets :
          VerifyToken(secret) /\ UNCHANGED <<task_vars, fs_vars>>
    \/ FromToken /\ UNCHANGED <<task_vars, fs_vars>>

SpecToken == InitTokenSpec /\ [][NextToken]_vars

\* The mounted process.  mount_filesystem builds the manager, the registry
\* and the filesystem and then blocks in fuser::mount2; it spawns no task,
\* and start_cleanup_task has no caller anywhere in the sources, so the
\* steps of the process are the requests made of the manager and the clock.
MountInstants ==
    {0, Secs(CLEANUP_INTERVAL_SECS), Secs(2 * CLEANUP_INTERVAL_SECS)}

NextMount ==
    \/ \E t \in MountInstants :
          Advance(t) /\ UNCHANGED <<task_vars, fs_vars>>
    \/ \E g \in GrantInputs :
          GrantCapability(g[1], g[2], g[3], g[4])
          /\ UNCHANGED <<task_vars, fs_vars>>
    \/ \E k \in issued :
          RevokeCapability(k) /\ UNCHANGED <<task_vars, fs_vars>>
    \/ \E c \in CheckInputs :
          CheckPermission(c[1], c[2]) /\ UNCHANGED <<task_vars, fs_vars>>

SpecMount == Init /\ [][NextMount]_vars

\* Concurrent calls of the manager's operations, seen as the lock
\* operations they make; the executor runs every task that can run.
InitLocks ==
    /\ InitManager
    /\ pc = [t \in Tasks |-> "idle"]
    /\ pend = [t \in Tasks |-> NotCalling]
    /\ InitFs

NextLocks ==
    \/ \E t \in Tasks : \E op \in LockOps(t) :
          LockBegin(t, op) /\ UNCHANGED fs_vars
    \/ \E t \in Tasks : LockStep(t) /\ UNCHANGED fs_vars

SpecLocks ==
    /\ InitLocks
    /\ [][NextLocks]_vars
    /\ \A t \in Tasks : WF_vars(LockStep(t) /\ UNCHANGED fs_vars)

\* Grants within one clock second: a caller's grant_capability next to the
\* grants of the tasks.  The grant of /cloud to bob for two days (cut to
\* one) and the grant of task 2, /cloud to bob for an hour, name the same
\* path, permissions and owner.
NextSameSecond ==
    \/ \E g \in GrantInputs :
          GrantCapability(g[1], g[2], g[3], g[4])
          /\ UNCHANGED <<task_vars, fs_vars>>
    \/ \E t \in Tasks : TaskGrantBegin(t) /\ UNCHANGED fs_vars
    \/ \E t \in Tasks : TaskGrantInsert(t) /\ UNCHANGED fs_vars
    \/ \E k \in issued :
          RevokeCapability(k) /\ UNCHANGED <<task_vars, fs_vars>>
    \/ CheckPermission(P_cloud_aws, "Write")
          /\ UNCHANGED <<task_vars, fs_vars>>

SpecSameSecond == Init /\ [][NextSameSecond]_vars

\* Concurrent check_permission calls on a manager whose audit log earlier
\* requests have filled up to the limit.
InitAudit ==
    /\ \E n \in {AUDIT_MAX - 1, AUDIT_MAX} : InitManagerWith(Prefilled(n))
    /\ InitTasks
    /\ InitFs

NextAudit ==
    \/ \E t \in Tasks, c \in CheckInputs :
          TaskBegin(t, c[1], c[2]) /\ UNCHANGED fs_vars
    \/ \E t \in Tasks : TaskPush(t) /\ UNCHANGED fs_vars
    \/ \E t \in Tasks : TaskTrim(t) /\ UNCHANGED fs_vars

SpecAudit == InitAudit /\ [][NextAudit]_vars

\* The driver registry, for every registry DriverRegistry::new can build.
InitDrivers ==
    /\ InitManager
    /\ InitTasks
    /\ inodes = SeededInodes.inodes
    /\ path_to_ino = SeededInodes.path_to_ino
    /\ drivers \in Registries
    /\ open_files = EmptyMap
    /\ next_fh = 1
    /\ reply = Reply("none", "none", 0, <<>>, <<>>, "")
    /\ backend_io = <<>>

NextDrivers ==
    \E path \in DriverPaths :
        RegistryGetDriver(path) /\ UNCHANGED <<cm_vars, task_vars>>

SpecDrivers == InitDrivers /\ [][NextDrivers]_vars

\* Concurrent grants, revocations and checks on one manager.
NextGrants ==
    \/ \E t \in Tasks : TaskGrantBegin(t) /\ UNCHANGED fs_vars
    \/ \E t \in Tasks : TaskGrantInsert(t) /\ UNCHANGED fs_vars
    \/ \E k \in issued \cup {LookalikeToken} :
          RevokeCapability(k) /\ UNCHANGED <<task_vars, fs_vars>>
    \/ CheckPermission(P_cloud_aws, "Read")
          /\ UNCHANGED <<task_vars, fs_vars>>

SpecGrants == Init /\ [][NextGrants]_vars

\* The protocol engine, the inode manager and the capability manager it was
\* given (the one of security/mod.rs).
InitFsSpec == InitManager /\ InitTasks /\ InitFs

NextFs ==
    \/ \E c \in FsCreateDirectories :
          ImCreateDirectory(c[1], c[2]) /\ UNCHANGED <<cm_vars, task_vars>>
    \/ \E c \in FsCreateFiles :
          ImCreateFile(c[1], c[2]) /\ UNCHANGED <<cm_vars, task_vars>>
    \/ \E i \in OpenInos : FsOpen(i) /\ UNCHANGED <<cm_vars, task_vars>>
    \/ \E fh \in 1..next_fh, off \in ReadOffsets, n \in ReadSizes :
          FsRead(fh, off, n) /\ UNCHANGED <<cm_vars, task_vars>>
    \/ \E fh \in 1..next_fh, d \in WriteData :
          FsWrite(fh, d) /\ UNCHANGED <<cm_vars, task_vars>>
    \/ \E fh \in 1..next_fh : FsRelease(fh) /\ UNCHANGED <<cm_vars, task_vars>>
    \/ \E c \in CheckInputs :
          DevCheckPermission(c[1], c[2]) /\ UNCHANGED <<task_vars, fs_vars>>

SpecFs == InitFsSpec /\ [][NextFs]_vars

\* Directory listings next to lookup, getattr and the creation of inodes.
NextListing ==
    \/ \E c \in FsCreateDirectories :
          ImCreateDirectory(c[1], c[2]) /\ UNCHANGED <<cm_vars, task_vars>>
    \/ \E c \in FsCreateFiles :
          ImCreateFile(c[1], c[2]) /\ UNCHANGED <<cm_vars, task_vars>>
    \/ \E d \in ListingInos, offset \in {0, 1} :
          FsReaddir(d, offset) /\ UNCHANGED <<cm_vars, task_vars>>
    \/ \E d \in ListingInos : \E i \in 1..Len(readdir_entries(d)) :
          FsLookup(d, readdir_entries(d)[i][1])
          /\ UNCHANGED <<cm_vars, task_vars>>
    \/ \E i \in ListingInos : FsGetattr(i) /\ UNCHANGED <<cm_vars, task_vars>>

SpecListing == InitFsSpec /\ [][NextListing]_vars

\* The inode manager under any sequence of creations.
NextInode ==
    \/ \E i \in CreateInos, p \in CreatePaths :
          ImCreateDirectory(i, p) /\ UNCHANGED <<cm_vars, task_vars>>
    \/ \E i \in CreateInos, p \in CreatePaths :
          ImCreateFile(i, p) /\ UNCHANGED <<cm_vars, task_vars>>

SpecInode == InitFsSpec /\ [][NextInode]_vars

(* ------------------------------- claims ------------------------------ *)
\* What the claims call a justification of an authorization: the ambient
\* token decodes, is unexpired, verifies when signatures are required, is
\* valid for the path and allows the operation; or an unexpired active
\* capability is valid for the path and allows the operation.
TokenJustifies(path, operation) ==
    /\ env_token # <<>>
    /\ from_token(env_token[1]).ok
    /\ LET cap == from_token(env_token[1]).cap IN
          /\ ~is_expired(cap, now)
          /\ config.require_signatures => verify(cap, config.hmac_secret)
          /\ is_valid_for_path(cap, path)
          /\ allows(cap, operation)

ActiveJustifies(path, operation) ==
    \E id \in DOMAIN active_capabilities :
        /\ ~is_expired(active_capabilities[id], now)
        /\ is_valid_for_path(active_capabilities[id], path)
        /\ allows(active_capabilities[id], operation)

\* C1: whenever check_permission(path, op) has returned authorized, the
\* ambient token or an active capability justifies it; there is no
\* default-allow path.  (Stated for every check_permission of the program.)
C1_FailClosed ==
    (ret.call = "check_permission" /\ ret.ok) =>
        \/ TokenJustifies(ret.path, ret.operation)
        \/ ActiveJustifies(ret.path, ret.operation)

\* The same statement for the check_permission of security/capabilities.rs
\* alone, which is not the one the crate exports.
FailClosed_capabilities_rs ==
    (ret.call = "check_permission" /\ ret.impl = "capabilities.rs" /\ ret.ok) =>
        \/ TokenJustifies(ret.path, ret.operation)
        \/ ActiveJustifies(ret.path, ret.operation)

\* C2: every call of check_permission (security/capabilities.rs), authorized
\* or denied, appends exactly one audit entry before it returns, and that
\* entry is the one of this request.
C2_ExactlyOneAuditEntry ==
    [][(calls' = calls + 1 /\ Len(audit_log) < AUDIT_MAX) =>
          /\ Len(audit_log') = Len(audit_log) + 1
          /\ audit_log' = Append(audit_log, audit_log'[Len(audit_log')])
          /\ audit_log'[Len(audit_log')].path = ret'.path
          /\ audit_log'[Len(audit_log')].operation = ret'.operation
          /\ audit_log'[Len(audit_log')].success = ret'.ok
          /\ audit_log'[Len(audit_log')].timestamp = now]_vars

\* C2's case: a denied call and then a call authorized through the ambient
\* token have returned, and the log holds their two entries.
C2_Witness ==
    /\ calls = 2
    /\ ret.call = "check_permission" /\ ret.ok /\ ret.via = "token"
    /\ Len(audit_log) = 2
    /\ ~audit_log[1].success
    /\ audit_log[2].success

\* C3: when revoke_capability(token) returns for a token that was granted,
\* neither the active set nor the validation cache holds an entry for it.
C3_RevokeRemovesBoth ==
    [][\A tok \in issued :
          (/\ tok \in DOMAIN revoked_at'
           /\ (tok \in DOMAIN revoked_at => revoked_at'[tok] # revoked_at[tok]))
          => /\ hash_capability(from_token(tok).cap) \notin DOMAIN active_capabilities'
             /\ tok \notin DOMAIN capability_cache']_vars

\* C4: a check_permission that presents a token revoked more than 60 seconds
\* ago, with no active capability covering the request, is denied.
C4_BoundedStaleness ==
    (/\ ret.call = "check_permission"
     /\ ret.token # <<>>
     /\ ret.token[1] \in DOMAIN revoked_at
     /\ now - revoked_at[ret.token[1]] > Secs(CACHE_TTL_SECS)
     /\ active_matches(ret.path, ret.operation, active_capabilities, now) = {})
    => ~ret.ok

\* C5: a read or write handler answers with data or a written count only
\* after check_permission(path, Read) or check_permission(path, Write) was
\* performed for that request and returned authorized.
C5_CheckBeforeReply ==
    [][(reply' # reply /\ reply'.kind \in {"data", "written"}) =>
          /\ calls' = calls + 1
          /\ ret'.call = "check_permission"
          /\ ret'.ok
          /\ <<ret'.path>> = reply'.path
          /\ ret'.operation = (IF reply'.op = "read" THEN "Read"
                                                      ELSE "Write")]_vars

\* bytes is a contiguous part of whole.
IsSlice(bytes, whole) ==
    \E i \in 1..(Len(whole) + 1) : \E j \in 0..Len(whole) :
        bytes = SubSeq(whole, i, j)

\* C6: the bytes a read returns are bytes the backend selected by
\* get_driver(path) returned for read(path), and the bytes a write accepts
\* were handed to that backend's write(path, data).  Stated for the paths
\* some registered backend supports.
C6_DelegatesToBackend ==
    [][(/\ reply' # reply
        /\ reply'.kind \in {"data", "written"}
        /\ get_driver(drivers, reply'.path[1]) # {<<>>}) =>
          \E d \in get_driver(drivers, reply'.path[1]) :
              /\ d # <<>>
              /\ IF reply'.op = "read"
                 THEN /\ IsSlice(reply'.data,
                                 driver_read(d[1], reply'.path[1]))
                      /\ backend_io' = Append(backend_io,
                             <<d[1], "read", reply'.path[1]>>)
                 ELSE backend_io' = Append(backend_io,
                             <<d[1], "write", reply'.path[1],
                               reply'.data>>)]_vars

\* C7: the id -> inode and path -> id maps agree: id i maps to an inode with
\* path p exactly when p maps to i, and no two ids carry the same path.
C7_AddressSpaceConsistent ==
    /\ \A i \in DOMAIN inodes :
          find_by_path(path_to_ino, inodes[i].path) = <<i>>
    /\ \A p \in DOMAIN path_to_ino :
          /\ get(inodes, path_to_ino[p]) # <<>>
          /\ get(inodes, path_to_ino[p])[1].path = p
    /\ \A i, j \in DOMAIN inodes :
          i # j => inodes[i].path # inodes[j].path

\* C8: create_file(id, b) directly after create_file(id, a), a # b, leaves
\* get(id).path = b and find_by_path(a) = none.
C8_RecreateRebinds ==
    [][\A id \in DOMAIN inodes :
          (/\ ~inodes[id].is_dir
           /\ find_by_path(path_to_ino, inodes[id].path) = <<id>>
           /\ id \in DOMAIN inodes'
           /\ ~inodes'[id].is_dir
           /\ inodes'[id].path # inodes[id].path)
          => /\ get(inodes', id)[1].path = inodes'[id].path
             /\ find_by_path(path_to_ino', inodes'[id].path) = <<id>>
             /\ find_by_path(path_to_ino', inodes[id].path) = <<>>]_vars

\* C9: the audit log never holds more than 10,001 entries, and at most
\* 10,000 whenever no audit append is in progress.
C9_AuditBound ==
    /\ Len(audit_log) <= AUDIT_MAX + 1
    /\ (\A t \in Tasks : pc[t] # "trim") => Len(audit_log) <= AUDIT_MAX

\* C10: the log only changes by one append or by one sweep that drops its
\* oldest 5,000 entries and keeps the rest in order; once an append has
\* made it exceed 10,000, the next change is that sweep, with no append of
\* another request in between.
C10_EvictionOneStep ==
    [][/\ Len(audit_log') < Len(audit_log) =>
              audit_log' = SubSeq(audit_log, AUDIT_DRAIN + 1, Len(audit_log))
       /\ Len(audit_log') >= Len(audit_log) =>
              /\ Len(audit_log') <= Len(audit_log) + 1
              /\ SubSeq(audit_log', 1, Len(audit_log)) = audit_log
       /\ (Len(audit_log) > AUDIT_MAX /\ audit_log' # audit_log) =>
              Len(audit_log') < Len(audit_log)]_vars

\* C11: when cleanup_expired has returned, the active set holds no expired
\* capability, and the validation cache holds no entry whose capability is
\* expired and no entry cached 300 seconds ago or more, even when the cached
\* capability is itself unexpired.
C11_CleanupPostcondition ==
    ret.call = "cleanup_expired" =>
        /\ \A id \in DOMAIN active_capabilities :
              active_capabilities[id].expiration >= now
        /\ \A k \in DOMAIN capability_cache :
              /\ capability_cache[k].cap.expiration >= now
              /\ now - capability_cache[k].cached_at < Secs(CLEANUP_CACHE_SECS)

\* C11's case: the ambient token of an unexpired grant was validated at the
\* epoch, and 300 seconds later cleanup_expired has returned: the capability
\* is still in the active set and its cache entry is gone.
C11_Witness ==
    /\ ret.call = "cleanup_expired"
    /\ now = Secs(CLEANUP_CACHE_SECS)
    /\ env_token # <<>> /\ env_token[1] \in issued
    /\ from_token(env_token[1]).cap.expiration > now
    /\ hash_capability(from_token(env_token[1]).cap) \in DOMAIN active_capabilities
    /\ audit_log # <<>>
    /\ audit_log[1].timestamp = 0 /\ audit_log[1].success
    /\ audit_log[1].owner = from_token(env_token[1]).cap.owner
    /\ capability_cache = EmptyMap

\* A step in which revoke_capability(k) returned Ok.
RevokeReturned(k) ==
    /\ k \in DOMAIN revoked_at'
    /\ k \in DOMAIN revoked_at => revoked_at'[k] # revoked_at[k]

\* C12: the grants of the tasks, on pairwise distinct paths and in any
\* interleaving, all succeed and leave one active entry each; revoking the
\* token of one removes exactly its entry and leaves every other entry, and
\* the requests it authorizes, as they were.
C12_ConcurrentGrantsIndependent ==
    [][/\ ((\A t \in Tasks : pc'[t] = "granted") /\ revoked_at' = EmptyMap) =>
              /\ Cardinality(issued') = NTasks
              /\ Cardinality(DOMAIN active_capabilities') = NTasks
              /\ \A t \in Tasks :
                    /\ pend'[t].token \in issued'
                    /\ pend'[t].capability_id \in DOMAIN active_capabilities'
                    /\ active_capabilities'[pend'[t].capability_id]
                          = pend'[t].cap
       /\ \A k \in issued :
             RevokeReturned(k) =>
                /\ DOMAIN active_capabilities' =
                      DOMAIN active_capabilities \ {hash_capability(from_token(k).cap)}
                /\ \A id \in DOMAIN active_capabilities' :
                      /\ active_capabilities'[id] = active_capabilities[id]
                      /\ (id \in active_matches(P_cloud_aws, "Read",
                                                active_capabilities', now))
                         <=> (id \in active_matches(P_cloud_aws, "Read",
                                                   active_capabilities, now))
      ]_vars

\* C12's case: every task's grant has returned and one of the tokens was
\* revoked: all but one entry are left.
C12_Witness ==
    /\ \A t \in Tasks : pc[t] = "granted"
    /\ Cardinality(issued) = NTasks
    /\ Cardinality(DOMAIN revoked_at \cap issued) = 1
    /\ Cardinality(DOMAIN active_capabilities) = NTasks - 1

\* The how-manieth insert into the active set put the entry id there.
InsertOrder(id) ==
    CHOOSE n \in 1..NTasks :
        \E t \in Tasks : /\ pc[t] = "granted"
                         /\ pend[t].capability_id = id
                         /\ pend[t].order = n

\* C17: when check_permission authorizes through the active set and several
\* active capabilities match, the owner it writes to the audit entry is the
\* owner of the match that was inserted first.
C17_FirstInsertedWins ==
    (ret.call = "check_permission" /\ ret.ok /\ ret.via = "active") =>
        LET m == active_matches(ret.path, ret.operation,
                                active_capabilities, now)
            first == CHOOSE id \in m :
                         \A other \in m : InsertOrder(id) <= InsertOrder(other)
        IN  audit_log[Len(audit_log)].owner = active_capabilities[first].owner

\* C19: revoke_capability of a well-formed token that is not in the active
\* set (never granted, or revoked before) returns Ok and leaves the active
\* set, the validation cache and the audit log as they were.
C19_RevokeUnknownIsNoop ==
    [][\A k \in issued \cup {LookalikeToken} :
          (/\ RevokeCapability(k)
           /\ from_token(k).ok
           /\ k \notin issued \/ k \in DOMAIN revoked_at)
          => /\ k \in DOMAIN revoked_at'
             /\ active_capabilities' = active_capabilities
             /\ capability_cache' = capability_cache
             /\ audit_log' = audit_log]_vars

\* C13: handles increase and are never reused.  next_fh never decreases and
\* is above every handle handed out so far; the handle an open returns is
\* not below next_fh, hence above every handle returned before it, released
\* or not.
C13_HandlesNeverReused ==
    [][/\ next_fh' >= next_fh
       /\ (reply' # reply /\ reply'.kind = "opened") =>
              /\ reply'.fh >= next_fh
              /\ reply'.fh < next_fh'
              /\ reply'.fh \notin DOMAIN open_files
       /\ \A fh \in DOMAIN open_files' : fh < next_fh']_vars

\* C13's case: handle 1 was returned and released, and a later open has
\* returned handle 2.
C13_Witness ==
    /\ reply.kind = "opened"
    /\ reply.fh = 2
    /\ DOMAIN open_files = {2}

\* C14: the table of open handles holds exactly the handles an open returned
\* and no release has discarded; a read or write is answered with data or a
\* count when its handle is in the table and with EBADF otherwise.
C14_HandleStateMachine ==
    [][/\ (reply' # reply /\ reply'.op \in {"read", "write"}) =>
              IF reply'.fh \in DOMAIN open_files
              THEN reply'.kind \in {"data", "written"}
              ELSE reply'.kind = "error" /\ reply'.errno = "EBADF"
       /\ (reply' # reply /\ reply'.op = "release") =>
              reply'.fh \notin DOMAIN open_files'
       /\ \A fh \in DOMAIN open_files' \ DOMAIN open_files :
              reply'.kind = "opened" /\ reply'.fh = fh]_vars

\* C14's case: a read on a handle that an open returned and a release
\* discarded was rejected with EBADF.
C14_Witness ==
    /\ reply.op = "read"
    /\ reply.kind = "error" /\ reply.errno = "EBADF"
    /\ reply.fh < next_fh
    /\ reply.fh \notin DOMAIN open_files

\* C15: get_driver(path) returns a backend only if that backend is
\* registered and supports the path, and returns none exactly when no
\* registered backend supports the path.
C15_GetDriverSupports ==
    reply.op = "get_driver" =>
        /\ reply.data # <<>> =>
              /\ reply.data[1] \in drivers
              /\ display_starts_with_dir(reply.path[1], reply.data[1].dir)
        /\ reply.data = <<>> <=>
              \A d \in drivers : ~display_starts_with_dir(reply.path[1], d.dir)

\* C15's case: with the cloud and HTTP backends registered, get_driver has
\* returned the HTTP backend for /net/http.
C15_Witness ==
    /\ reply.op = "get_driver"
    /\ {CloudDriver, HttpDriver} \subseteq drivers
    /\ reply.path = <<P_net_http>>
    /\ reply.data = <<HttpDriver>>

\* The position of a driver in the registration sequence.
RegisteredAt(d) ==
    CHOOSE i \in 1..Len(RegistrationOrder) : RegistrationOrder[i] = d.name

\* C16: when several registered backends support a path, get_driver returns
\* the one that was registered first.
C16_FirstRegisteredWins ==
    (reply.op = "get_driver" /\ reply.data # <<>>) =>
        \A d \in drivers :
            supports(d, reply.path[1]) =>
                RegisteredAt(reply.data[1]) <= RegisteredAt(d)

SelfAndAncestors(target) ==
    {[i \in 1..n |-> target[i]] : n \in 0..Len(target)}

ScopeTargets == {P_root, P_cloud, P_cloud_aws, P_cloud2_x, P_net_http}

\* C20: a capability is valid for a target iff the target is its scope path
\* or lies below it, segment by segment: a capability scoped to /cloud
\* covers /cloud and /cloud/aws and not /cloud2/x, and check_permission
\* authorizes a path only when the scope of the ambient token or of an
\* active capability covers it in that sense.
C20_ScopeBySegment ==
    /\ \A id \in DOMAIN active_capabilities :
          LET cap == active_capabilities[id] IN
          /\ \A target \in ScopeTargets :
                is_valid_for_path(cap, target)
                    <=> cap.path \in SelfAndAncestors(target)
          /\ cap.path = P_cloud =>
                /\ is_valid_for_path(cap, P_cloud)
                /\ is_valid_for_path(cap, P_cloud_aws)
                /\ ~is_valid_for_path(cap, P_cloud2_x)
    /\ (ret.call = "check_permission" /\ ret.impl = "capabilities.rs"
        /\ ret.ok) =>
          \/ \E id \in DOMAIN active_capabilities :
                active_capabilities[id].path \in SelfAndAncestors(ret.path)
          \/ /\ ret.token # <<>>
             /\ from_token(ret.token[1]).cap.path \in SelfAndAncestors(ret.path)

\* C20's case: with an unexpired capability on /cloud that allows reading
\* in the active set, a read of /cloud2/x was denied.
C20_Witness ==
    /\ ret.call = "check_permission" /\ ~ret.ok
    /\ ret.path = P_cloud2_x /\ ret.operation = "Read"
    /\ \E id \in DOMAIN active_capabilities :
          /\ active_capabilities[id].path = P_cloud
          /\ allows(active_capabilities[id], "Read")
          /\ ~is_expired(active_capabilities[id], now)

\* C21: a capability signed with a secret verifies with that secret, both
\* as sign returned it and after to_token and from_token; it fails to
\* verify with any other secret; a capability without a signature never
\* verifies.
C21_SignVerify ==
    /\ ret.call = "sign" =>
          \A S \in Secrets :
             verify(ret.value[1], S) <=> S = ret.secret
    /\ ret.call = "verify" =>
          /\ ret.value[1].signature = <<>> => ~ret.ok
          /\ \A S \in Secrets :
                ret.token[1] = to_token(sign(Unsigned(ret.value[1]), S))
                   => (ret.ok <=> ret.secret = S)

\* C21's case: a token that sign produced was decoded and verified with
\* the secret that signed it.
C21_Witness ==
    /\ ret.call = "verify"
    /\ ret.ok
    /\ ret.token[1] \in issued
    /\ ret.secret = HMAC_SECRET

\* C22: a capability that verifies and carries the signature of a signed
\* token is that token: no field of it (path, permissions, expiration,
\* owner, issuance instant) differs from what was signed.
C22_AnyFieldChangeInvalidates ==
    (ret.call = "verify" /\ ret.ok) =>
       \A k \in issued :
          from_token(k).cap.signature = ret.value[1].signature
             => ret.token[1] = k

\* C27: from_token(to_token(C)) succeeds and returns C field for field,
\* with or without a signature; a string without the prefix, with a payload
\* that is not base64url or not the JSON of a capability is an error and
\* yields no capability.
C27_TokenRoundTrip ==
    ret.call = "from_token" =>
       /\ \A C \in TokenCaps, sig \in {<<>>, ret.token[1].json.signature} :
             ret.token[1] = to_token([C EXCEPT !.signature = sig])
                => /\ ret.ok
                   /\ ret.value = <<[C EXCEPT !.signature = sig]>>
       /\ ret.token[1] \in MalformedTokens
             => /\ ~ret.ok
                /\ ret.value = <<>>
                /\ ret.err \in {<<"Invalid token format">>,
                                <<"Invalid token encoding">>,
                                <<"Invalid token UTF-8">>,
                                <<"Invalid token JSON">>}

\* C27's case: a signed capability issued a tick past the second and
\* expiring a tick past the second came back from its token.
C27_Witness ==
    /\ ret.call = "from_token"
    /\ ret.ok
    /\ ret.value[1].signature # <<>>
    /\ ret.value[1].issued_at % SUBSEC # 0
    /\ ret.value[1].expiration % SUBSEC # 0
    /\ ret.token[1] = to_token(ret.value[1])

\* The cache entry of token k is younger than 60 seconds and unexpired.
CacheFresh(k) ==
    /\ k \in DOMAIN capability_cache
    /\ now - capability_cache[k].cached_at < Secs(CACHE_TTL_SECS)
    /\ ~is_expired(capability_cache[k].cap, now)

\* Token k passes full validation now: it decodes, is unexpired and carries
\* the signature of the configured secret.
FullyValid(k) ==
    /\ from_token(k).ok
    /\ ~is_expired(from_token(k).cap, now)
    /\ verify(from_token(k).cap, config.hmac_secret)

\* C28: with signatures required, a check_permission is authorized through
\* the ambient token only if the token's capability is unexpired at that
\* instant, was fully validated and covers the request; a cache entry is
\* used as it is only while younger than 60 seconds and unexpired, otherwise
\* the token is validated again and, if valid, cached anew at that instant;
\* every cache entry is the decoded capability of a correctly signed token,
\* so a token with no or a wrong signature is never cached and never
\* authorizes through the token.
C28_CacheSoundness ==
    [][\A c \in CheckInputs :
          (CheckPermission(c[1], c[2]) /\ config.require_signatures) =>
             /\ (ret'.ok /\ ret'.via = "token") =>
                   /\ env_token # <<>>
                   /\ CacheFresh(env_token[1]) \/ FullyValid(env_token[1])
                   /\ env_token[1] \in DOMAIN capability_cache'
                   /\ LET cap == capability_cache'[env_token[1]].cap IN
                         /\ ~is_expired(cap, now)
                         /\ is_valid_for_path(cap, c[1])
                         /\ allows(cap, c[2])
             /\ env_token # <<>> =>
                   IF CacheFresh(env_token[1])
                   THEN capability_cache' = capability_cache
                   ELSE IF FullyValid(env_token[1])
                   THEN capability_cache' =
                           map_insert(capability_cache, env_token[1],
                                      [cap |-> from_token(env_token[1]).cap,
                                       cached_at |-> now])
                   ELSE /\ capability_cache' = capability_cache
                        /\ ret'.via # "token"
             /\ \A k \in DOMAIN capability_cache' :
                   /\ from_token(k).ok
                   /\ verify(from_token(k).cap, config.hmac_secret)
                   /\ capability_cache'[k].cap = from_token(k).cap
                   /\ capability_cache'[k].cached_at <= now]_vars

\* C28's case: a token cached at instant 0 was presented again more than 60
\* seconds later, validated again and cached anew, and authorized the check.
C28_Witness ==
    /\ ret.call = "check_permission" /\ ret.ok /\ ret.via = "token"
    /\ now > Secs(CACHE_TTL_SECS)
    /\ calls = 2
    /\ ret.token[1] \in DOMAIN capability_cache
    /\ capability_cache[ret.token[1]].cached_at = now
    /\ audit_log[1].timestamp = 0 /\ audit_log[1].success
    /\ audit_log[1].owner = capability_cache[ret.token[1]].cap.owner

\* A run in which a token without a signature, or signed with another
\* secret, was presented and denied, the cache staying as it was.
C28_WitnessForged ==
    /\ ret.call = "check_permission" /\ ~ret.ok
    /\ ret.token \in {<<UnsignedToken>>, <<WrongKeyToken>>}
    /\ UnsignedToken \notin DOMAIN capability_cache

\* C23: grant_capability(path, permissions, owner, d) at instant t stores a
\* capability and returns a token that decodes to the same capability, with
\* the given path, permissions and owner, issued at t and expiring at
\* t + min(d, max_token_lifetime); that capability is unexpired at every
\* instant up to its expiration and expired at every instant after it.
C23_ClampedFaithfulToken ==
    [][\A g \in LifetimeGrantInputs :
          GrantCapability(g[1], g[2], g[3], g[4]) =>
             \E tok \in issued' :
                LET D == from_token(tok).cap
                    lifetime == Min(g[4], Secs(MAX_TOKEN_LIFETIME_SECS))
                IN  /\ from_token(tok).ok
                    /\ hash_capability(D) \in DOMAIN active_capabilities'
                    /\ active_capabilities'[hash_capability(D)] = D
                    /\ D.path = g[1]
                    /\ D.permissions = g[2]
                    /\ D.owner = g[3]
                    /\ D.issued_at = now
                    /\ D.expiration = now + lifetime
                    /\ D.expiration - D.issued_at
                          <= config.max_token_lifetime
                    /\ \A t \in {now, now + lifetime - 1, now + lifetime} :
                          t >= now => ~is_expired(D, t)
                    /\ \A t \in {now + lifetime + 1,
                                 now + lifetime + Secs(1)} :
                          is_expired(D, t)]_vars

\* C23's case: a grant for twice the maximum lifetime, made after the clock
\* had moved, is in the active set with exactly the maximum lifetime.
C23_Witness ==
    /\ now > 0
    /\ \E tok \in issued :
          /\ from_token(tok).cap.owner = "bob"
          /\ from_token(tok).cap.issued_at = now
          /\ from_token(tok).cap.expiration
                = now + Secs(MAX_TOKEN_LIFETIME_SECS)
          /\ hash_capability(from_token(tok).cap)
                \in DOMAIN active_capabilities

\* C24: every capability that grant_capability has stored expires strictly
\* after it was issued, whatever duration was requested.
C24_ExpirationAfterIssuance ==
    \A id \in DOMAIN active_capabilities :
        active_capabilities[id].expiration
           > active_capabilities[id].issued_at

\* C30: open of an id that no inode has, or that a directory has, replies
\* ENOENT, allocates no handle and leaves the open-handle table and next_fh
\* as they were; a successful open binds a new handle to the path the id has
\* at that moment, and no later step (a re-creation of the id included)
\* changes the path of an open handle.
C30_OpenFailsClosed ==
    [][/\ \A ino \in OpenInos :
             FsOpen(ino) =>
                IF get(inodes, ino) = <<>> \/ get(inodes, ino)[1].is_dir
                THEN /\ reply'.kind = "error"
                     /\ reply'.errno = "ENOENT"
                     /\ open_files' = open_files
                     /\ next_fh' = next_fh
                ELSE /\ reply'.kind = "opened"
                     /\ reply'.fh \notin DOMAIN open_files
                     /\ DOMAIN open_files'
                           = DOMAIN open_files \cup {reply'.fh}
                     /\ open_files'[reply'.fh].path
                           = get(inodes, ino)[1].path
                     /\ next_fh' = next_fh + 1
       /\ \A fh \in DOMAIN open_files \cap DOMAIN open_files' :
             open_files'[fh].path = open_files[fh].path]_vars

\* C30's case: id 10 was opened as /proc/llama3 and then re-created as /a;
\* the handle still names /proc/llama3, and an open that failed afterwards
\* took no handle number.
C30_Witness ==
    /\ reply.op = "open" /\ reply.kind = "error"
    /\ get(inodes, 10)[1].path = P_a
    /\ DOMAIN open_files = {1}
    /\ open_files[1].path = P_llama3
    /\ next_fh = 2

\* The granted tokens that are neither revoked nor expired and whose
\* capability covers (path, operation).
LiveGrants(path, operation) ==
    {k \in issued :
        /\ k \notin DOMAIN revoked_at
        /\ ~is_expired(from_token(k).cap, now)
        /\ is_valid_for_path(from_token(k).cap, path)
        /\ allows(from_token(k).cap, operation)}

\* C29: a check_permission made with no ambient token is authorized if and
\* only if some granted capability that has neither expired nor been
\* revoked covers the path and allows the operation: authorized from the
\* return of the grant until expiry or revocation, denied afterwards unless
\* another such capability covers the request.
C29_GrantLifecycle ==
    (/\ ret.call = "check_permission"
     /\ ret.impl = "capabilities.rs"
     /\ ret.token = <<>>)
    => (ret.ok <=> LiveGrants(ret.path, ret.operation) # {})

\* C26: cleanup_expired runs every 5 minutes for the lifetime of the
\* process, so an expired capability is out of the active set by the next
\* sweep: no active capability has been expired for more than 5 minutes.
C26_SweptWithinFiveMinutes ==
    \A id \in DOMAIN active_capabilities :
        now - active_capabilities[id].expiration
           <= Secs(CLEANUP_INTERVAL_SECS)

\* No task is queued for a lock whose guard it holds itself.
NoSelfWait ==
    \A t \in Tasks :
        pc[t] = "waiting" =>
           LET lock == LockProgram(pend[t].op)[pend[t].at][2] IN
              ~Holds(t, lock, "R") /\ ~Holds(t, lock, "W")

\* C25: under fair scheduling and any interleaving of check_permission,
\* grant_capability, revoke_capability, cleanup_expired, get_stats and
\* get_audit_log, every call that has started eventually returns, and no
\* task ever waits for a lock it already holds.
C25_EveryCallReturns ==
    /\ []NoSelfWait
    /\ \A t \in Tasks : (pc[t] # "idle") ~> (pc[t] = "idle")

\* C25's case: a check_permission holds the read guard of the active set
\* and is queued for the write guard of the audit log while get_stats holds
\* read guards on all three.
C25_Witness ==
    /\ pc[1] = "waiting"
    /\ pend[1].op = "check_permission, rejected token, active set"
    /\ Holds(1, "active", "R")
    /\ pend[2].op = "get_stats"
    /\ Holds(2, "active", "R") /\ Holds(2, "cache", "R")
    /\ Holds(2, "audit", "R")

\* C31: every grant_capability that returns a new token adds an entry of
\* its own to the active set: the set grows by one, two granted tokens never
\* have the same identifier (also when they name the same path, permissions
\* and owner within one second), and revoking one granted token leaves the
\* entry of every other granted, unrevoked token in place.
C31_OwnEntryPerGrant ==
    [][/\ \A g \in GrantInputs :
             (GrantCapability(g[1], g[2], g[3], g[4]) /\ issued' # issued)
                => Cardinality(DOMAIN active_capabilities')
                      = Cardinality(DOMAIN active_capabilities) + 1
       /\ \A t \in Tasks :
             (TaskGrantInsert(t) /\ issued' # issued)
                => Cardinality(DOMAIN active_capabilities')
                      = Cardinality(DOMAIN active_capabilities) + 1
       /\ \A k1 \in issued', k2 \in issued' :
             k1 # k2 => hash_capability(from_token(k1).cap)
                           # hash_capability(from_token(k2).cap)
       /\ \A k \in issued :
             RevokeReturned(k) =>
                \A k2 \in issued \ ({k} \cup DOMAIN revoked_at) :
                   hash_capability(from_token(k2).cap)
                         \in DOMAIN active_capabilities
                      => hash_capability(from_token(k2).cap)
                            \in DOMAIN active_capabilities']_vars

\* C32: for every directory id d and every entry (name, ino) that
\* readdir(d) returns, the inode manager knows ino, lookup(d, name) replies
\* an entry whose attributes carry ino, getattr(ino) succeeds, and open(ino)
\* succeeds when the entry is a regular file (open succeeds exactly on a
\* known inode that is not a directory).
C32_ListingAgreesWithAddressSpace ==
    [][\A d \in ListingInos, offset \in {0, 1} :
          FsReaddir(d, offset) =>
             \A i \in 1..Len(reply'.data) :
                LET e == reply'.data[i]
                    im == [inodes |-> inodes, path_to_ino |-> path_to_ino]
                IN  /\ get(inodes, e.ino) # <<>>
                    /\ lookup(im, d, e.name).kind = "entry"
                    /\ lookup(im, d, e.name).data[1].ino = e.ino
                    /\ get_file_attr(inodes, e.ino) # <<>>
                    /\ \/ get_file_attr(inodes, e.ino)[1].kind = "Directory"
                       \/ /\ get(inodes, e.ino) # <<>>
                          /\ ~get(inodes, e.ino)[1].is_dir]_vars

====
